---------------------------- MODULE Spec2Model ----------------------------
(***************************************************************************)
(* KinematicChainCalibration (kinova_tracking/kinematic_chain_calibration) *)
(* as a state machine: construction (__init__), the alternation loop of    *)
(* solve() with the per-frame loop of step_2(), and the penalty functions  *)
(* as operators.                                                           *)
(*                                                                         *)
(* Python lists are sequences (1-based here), the indices the code stores  *)
(* in them stay 0-based.  Arrays [n_dof x n_frames] are functions          *)
(* [0..n_dof-1 -> [0..n_frames-1 -> Int]].  Angles are counted in units of *)
(* pi/10, so that the pivot limit 7*pi/10 is the integer 7.  The NLP       *)
(* back-ends (scipy least_squares / minimize, cyipopt minimize_ipopt) are   *)
(* black boxes: a solve returns any point of a grid inside the bounds.     *)
(***************************************************************************)
EXTENDS Integers, Sequences, FiniteSets, TLC

VARIABLES
    pc,                         \* position of the program
    err,                        \* the exception that ended the program, or "none"
    args,                       \* arguments of __init__
    nb_frames,                  \* self.nb_frames
    table_markers_idx,          \* self.table_markers_idx
    model_markers_idx,          \* self.model_markers_idx
    list_frames_param_step,     \* self.list_frames_param_step
    q_ik_initial_guess,         \* self.q_ik_initial_guess
    guess_is_q_output,          \* self.q_ik_initial_guess and q_output are one array
    guess_is_self_q,            \* self.q_ik_initial_guess and self.q are one array
    solve_calls,                \* calls of solve() made on the engine
    threshold,                  \* argument of solve()
    p,                          \* solve(): p
    q_output,                   \* solve(): the array bound to q_output
    q_step_2,                   \* solve(): the array returned by the first step_2
    q_out_bound,                \* solve(): q_out has been assigned (it is q_output)
    epsilon,                    \* solve(): eps returned by the first step_2
    epsilon_markers_n,          \* solve()
    epsilon_markers_n_minus_1,  \* solve()
    delta_epsilon_markers,      \* solve()
    iteration,                  \* solve()
    nb_passes,                  \* solve(): len(jacobians_used) = len(gain_list)
    in_loop,                    \* step_2 was called from the while loop of solve()
    f,                          \* step_2(): frame of the for loop
    x0,                         \* step_2(): warm start of the last frame solved
    espilon_markers,            \* step_2(): espilon_markers
    ik_success,                 \* step_2(): ipopt_i["success"] of the last frame solved
    param_success,              \* solve(): param_opt.success of the last minimize_ipopt
    self_q,                     \* self.q
    self_parameters,            \* self.parameters
    returned,                   \* values of the arrays solve() returned, when it returned
    accepted,                   \* step_2(): the solutions of the frames of the last pass, in the order they were solved
    seeded_guess,               \* solve(): values of self.q_ik_initial_guess after the seeding
    last_solve,                 \* what the last call of a solver was handed
    call,                       \* a call of a penalty function: its arguments
    ret                         \* what the call returned

engine_vars == <<pc, err, args, nb_frames, table_markers_idx, model_markers_idx,
                 list_frames_param_step, q_ik_initial_guess, guess_is_q_output,
                 guess_is_self_q, solve_calls, threshold, p, q_output, q_step_2, q_out_bound, epsilon,
                 epsilon_markers_n, epsilon_markers_n_minus_1,
                 delta_epsilon_markers, iteration, nb_passes, in_loop, f, x0,
                 espilon_markers, ik_success, param_success, self_q,
                 self_parameters, returned, accepted, seeded_guess, last_solve>>

penalty_vars == <<call, ret>>

vars == <<engine_vars, penalty_vars>>

-----------------------------------------------------------------------------
(* Bounds of the model *)

NbFrames == 2       \* frames of a trial (nb_frames_ik_step)
MaxIter == 2        \* outer iterations of solve() that are explored
MaxOpenLoop == 2    \* open-loop markers of the largest model explored
MaxSolveCalls == 2  \* calls of solve() on one engine
MaxAngle == 5       \* largest angle handed to theta_pivot_penalty

-----------------------------------------------------------------------------
(* Python helpers *)

Abs(x) == IF x < 0 THEN -x ELSE x

Min(a, b) == IF a < b THEN a ELSE b

Range(s) == {s[i] : i \in 1..Len(s)}

\* range(n) as a list
PyRange(n) == [i \in 1..n |-> i - 1]

\* s[a:b] for 0 <= a, b: the slice is cut at the end of s
PySlice(s, a, b) ==
    LET lo == Min(a, Len(s))
        hi == Min(b, Len(s))
    IN  IF hi <= lo THEN <<>> ELSE [i \in 1..(hi - lo) |-> s[lo + i]]

\* s.index(v), for v in s
PyIndex(s, v) == (CHOOSE i \in 1..Len(s) : s[i] = v /\ \A j \in 1..(i - 1) : s[j] # v) - 1

RECURSIVE SumSeq(_)
SumSeq(s) == IF s = <<>> THEN 0 ELSE Head(s) + SumSeq(Tail(s))

\* the injective sequences of length n over S: the outcomes of random.sample(S, n)
RECURSIVE Injective(_, _)
Injective(S, n) ==
    IF n = 0 THEN {<<>>}
    ELSE UNION {{Append(s, v) : v \in S \ Range(s)} : s \in Injective(S, n - 1)}

\* list.sort() on a list of distinct integers
RECURSIVE PySorted(_)
PySorted(s) ==
    IF s = <<>> THEN <<>>
    ELSE LET m == CHOOSE v \in Range(s) : \A w \in Range(s) : v <= w
             i == CHOOSE k \in 1..Len(s) : s[k] = m
         IN  <<m>> \o PySorted(SubSeq(s, 1, i - 1) \o SubSeq(s, i + 1, Len(s)))

StrictlyIncreasing(s) == \A i \in 1..(Len(s) - 1) : s[i] < s[i + 1]

-----------------------------------------------------------------------------
(* The kinematic model (biorbd.Model), an external collaborator: a small     *)
(* chain of two dofs, the first the mounting offset of its support.          *)

model_dofs == <<"support_transX", "arm_rotZ">>

nbQ == Len(model_dofs)

Dofs == 0..(nbQ - 1)

\* utils.get_range_q(biorbd_model): the same range for every dof
QRangeMin == 0
QRangeMax == 2

get_range_q == << [d \in Dofs |-> QRangeMin], [d \in Dofs |-> QRangeMax] >>

\* "Table" in name
ContainsTable(name) == name \in {"Table:Table5", "Table:Table6"}

\* position of the marker called name in pose q
MarkerPosition(name, q) ==
    CASE name = "XIPH"         -> <<3 * q[1], q[0], 0>>
      [] name = "STER"         -> <<q[1] + q[0], q[1], 1>>
      [] name = "CLAV"         -> <<q[0], 2 * q[1], 3>>
      [] name = "Table:Table5" -> <<q[0], q[1], 0>>
      [] name = "Table:Table6" -> <<q[0] + q[1], q[0], 2>>
      [] OTHER                 -> <<0, 0, 0>>

\* biorbd_model.markers(q): one position per marker of the model, in its order
biorbd_markers(model, q) ==
    [m \in 1..Len(model.markerNames) |-> MarkerPosition(model.markerNames[m], q)]

OpenLoopNames == <<"XIPH", "STER", "CLAV">>

\* the models: n open-loop markers followed by the two markers of the table
BiorbdModels ==
    {[markerNames |-> SubSeq(OpenLoopNames, 1, n) \o <<"Table:Table5", "Table:Table6">>] :
        n \in 1..Min(MaxOpenLoop, Len(OpenLoopNames))}

-----------------------------------------------------------------------------
(* The experimental markers: a noise-free recording of the open-loop markers *)
(* along a known motion, the table markers measured away from the model's.   *)

TruePose(frame) == [d \in Dofs |-> IF d = nbQ - 1 THEN frame % 2 ELSE 0]

XpPosition(name, frame) ==
    LET pos == MarkerPosition(name, TruePose(frame))
    IN  IF ContainsTable(name) THEN <<pos[1] + 5, pos[2] + 5, pos[3] + 5>> ELSE pos

\* markers[:, j, frame] of the array handed to __init__
Markers(j, frame) == XpPosition(args.markers_model[j + 1], frame)

ZeroArray(n_frames) == [d \in Dofs |-> [fr \in 0..(n_frames - 1) |-> 0]]

-----------------------------------------------------------------------------
(* Arguments of __init__ *)

WithGhost(names) == <<"Ghost">> \o Tail(names)

InitialGuesses(n_frames) ==
    {ZeroArray(n_frames),
     [d \in Dofs |-> [fr \in 0..(n_frames - 1) |-> IF d = nbQ - 1 THEN 2 ELSE 0]]}

Solvers == {"leastsquare", "ipopt"}

\* weights_param, weights_ik: one entry short, the five weights, one entry more
WeightVectors == {<<1, 2, 3, 4>>, <<1, 2, 3, 4, 5>>, <<1, 2, 3, 4, 5, 6>>}

ArgsOf(model) ==
    [biorbd_model : {model},
     markers_model : {model.markerNames, WithGhost(model.markerNames)},
     markers_shape : {<<3, Len(model.markerNames), NbFrames>>,
                      <<3, Len(model.markerNames) - 1, NbFrames>>,
                      <<3, Len(model.markerNames), NbFrames + 1>>},
     closed_loop_markers : {<<"Table:Table5", "Table:Table6">>, <<"Table:Table5", "Ghost">>,
                            <<"Table:Table5">>},
     tracked_markers : {model.markerNames, WithGhost(model.markerNames)},
     parameter_dofs : {<<"support_transX">>},
     kinematic_dofs : {<<"arm_rotZ">>, <<"support_transX">>,
                       <<"arm_rotZ", "support_transX">>, <<"Ghost">>},
     weights_param : WeightVectors,
     weights_ik : WeightVectors,
     q_ik_initial_guess : InitialGuesses(NbFrames),
     nb_frames_ik_step : {NbFrames},
     nb_frames_param_step : 0..(NbFrames + 1),
     randomize_param_step_frames : BOOLEAN,
     ik_solver : Solvers,
     param_solver : Solvers]

\* the usual call for a model: every marker of the model tracked, the first
\* frames but one wanted for the parameter step, not randomized
Baseline(model) ==
    [biorbd_model |-> model,
     markers_model |-> model.markerNames,
     markers_shape |-> <<3, Len(model.markerNames), NbFrames>>,
     closed_loop_markers |-> <<"Table:Table5", "Table:Table6">>,
     tracked_markers |-> model.markerNames,
     parameter_dofs |-> <<"support_transX">>,
     kinematic_dofs |-> <<"arm_rotZ">>,
     weights_param |-> <<1, 2, 3, 4, 5>>,
     weights_ik |-> <<1, 2, 3, 4, 5>>,
     q_ik_initial_guess |-> ZeroArray(NbFrames),
     nb_frames_ik_step |-> NbFrames,
     nb_frames_param_step |-> NbFrames - 1,
     randomize_param_step_frames |-> FALSE,
     ik_solver |-> "leastsquare",
     param_solver |-> "leastsquare"]

\* the arguments in which a differs from b
Deviations(a, b) == {k \in DOMAIN a : a[k] # b[k]}

\* the calls explored: the usual call of each model and the calls that differ
\* from it in one argument
ArgSet ==
    UNION {{a \in ArgsOf(model) : Cardinality(Deviations(a, Baseline(model))) <= 1} :
            model \in BiorbdModels}

-----------------------------------------------------------------------------
(* __init__ *)

\* random.sample(range(frames), frames_needed): any frames_needed distinct frames, in any order
random_sample(frames, frames_needed) == Injective(0..(frames - 1), frames_needed)

\* what a frame_selector that does not sort its sample would return
frame_selector_unsorted(frames_needed, frames) ==
    IF frames_needed > frames
    THEN {[exc |-> "ValueError: Sample larger than population", value |-> <<>>]}
    ELSE {[exc |-> "none", value |-> s] : s \in random_sample(frames, frames_needed)}

\* what a frame_selector that takes every frame when too many are asked would return
frame_selector_clamped(frames_needed, frames) ==
    {[exc |-> "none", value |-> PySorted(s)] : s \in random_sample(frames, Min(frames_needed, frames))}

\* frame_selector: the outcomes, an exception or the sorted sample
frame_selector(frames_needed, frames) ==
    IF frames_needed > frames
    THEN {[exc |-> "ValueError: Sample larger than population", value |-> <<>>]}
    ELSE {[exc |-> "none", value |-> PySorted(s)] : s \in random_sample(frames, frames_needed)}

\* [self.markers_model.index(i) for i in self.markers_model if "Table" in i]
TableMarkersIdx(markers_model) ==
    LET names == SelectSeq(markers_model, ContainsTable)
    IN  [k \in 1..Len(names) |-> PyIndex(markers_model, names[k])]

\* [self.tracked_markers.index(i) for i in self.tracked_markers]
ModelMarkersIdx(tracked_markers) ==
    [k \in 1..Len(tracked_markers) |-> PyIndex(tracked_markers, tracked_markers[k])]

\* self.q_parameter_index, self.q_kinematic_index
q_parameter_index == [k \in 1..Len(args.parameter_dofs) |-> PyIndex(model_dofs, args.parameter_dofs[k])]
q_kinematic_index == [k \in 1..Len(args.kinematic_dofs) |-> PyIndex(model_dofs, args.kinematic_dofs[k])]

\* self.model_dofs.index(dof) finds no dof of that name
UnknownDof(a) ==
    \/ \E i \in 1..Len(a.parameter_dofs) : a.parameter_dofs[i] \notin Range(model_dofs)
    \/ \E i \in 1..Len(a.kinematic_dofs) : a.kinematic_dofs[i] \notin Range(model_dofs)

\* the loop over markers_model finds a name that the model does not have
UnknownModelMarker(a) ==
    \E i \in 1..Len(a.markers_model) : a.markers_model[i] \notin Range(a.biorbd_model.markerNames)

\* markers.shape == (3, len(markers_model), nb_frames_ik_step)
ShapeMatches(a) == a.markers_shape = <<3, Len(a.markers_model), a.nb_frames_ik_step>>

\* [value] * n
Repeat(value, n) == [i \in 1..n |-> value]

\* what a constructor that reads no entry of the weight vectors would find
MissingWeightNever(a) == FALSE

\* __init__ reads weights_param[i] and weights_ik[i] for i = 0, 1, 4, 2, 3:
\* one of them is past the end of its vector
MissingWeight(a) ==
    \E i \in {0, 1, 4, 2, 3} : i >= Len(a.weights_param) \/ i >= Len(a.weights_ik)

\* the weight list built in __init__ from the weight vector w
WeightList(a, w) ==
    LET weight_closed_loop == Repeat(w[1], Len(a.closed_loop_markers) * 3 - 1)
        weight_open_loop ==
            Repeat(w[2], Len(SelectSeq(a.tracked_markers,
                                       LAMBDA i : i \notin Range(a.closed_loop_markers))) * 3)
        weight_rot_matrix == Repeat(w[5], 5)
        weight_theta_13 == <<w[3]>>
        weight_continuity ==
            Repeat(w[4], Cardinality(DOMAIN a.q_ik_initial_guess) - Len(a.parameter_dofs))
    IN  weight_closed_loop \o weight_open_loop \o weight_continuity \o weight_theta_13
            \o weight_rot_matrix

\* self.weight_list_param, self.weight_list_ik
weight_list_param == WeightList(args, args.weights_param)
weight_list_ik == WeightList(args, args.weights_ik)

Raise(e) ==
    /\ pc' = "failed"
    /\ err' = e
    /\ UNCHANGED <<nb_frames, table_markers_idx, model_markers_idx, list_frames_param_step,
                   q_ik_initial_guess, self_q>>

Construct ==
    /\ pc = "new"
    /\ IF UnknownModelMarker(args)
       THEN Raise("ValueError: The following marker is not in markers_model")
       ELSE IF ~ShapeMatches(args)
       \* building the message of the ValueError calls markers.shape, a tuple
       THEN Raise("TypeError: 'tuple' object is not callable")
       ELSE IF UnknownDof(args)
       THEN Raise("ValueError: the dof is not in list")
       ELSE \E sample \in frame_selector(args.nb_frames_param_step, args.nb_frames_ik_step) :
                IF sample.exc # "none"
                THEN Raise(sample.exc)
                ELSE IF MissingWeight(args)
                THEN Raise("IndexError: list index out of range")
                ELSE /\ pc' = "constructed"
                     /\ err' = "none"
                     /\ nb_frames' = args.markers_shape[3]
                     /\ table_markers_idx' = TableMarkersIdx(args.markers_model)
                     /\ model_markers_idx' = ModelMarkersIdx(args.tracked_markers)
                     /\ q_ik_initial_guess' = args.q_ik_initial_guess
                     /\ list_frames_param_step' = sample.value
                     /\ self_q' = ZeroArray(args.nb_frames_ik_step)
    /\ UNCHANGED <<args, guess_is_q_output, guess_is_self_q, solve_calls, threshold, p,
                   q_output, q_step_2, q_out_bound, epsilon, epsilon_markers_n, epsilon_markers_n_minus_1,
                   delta_epsilon_markers, iteration, nb_passes, in_loop, f, x0,
                   espilon_markers, ik_success, param_success, self_parameters, returned>>
    /\ UNCHANGED <<accepted, seeded_guess, last_solve>>
    /\ UNCHANGED penalty_vars

-----------------------------------------------------------------------------
(* The penalty functions.  An array over the dofs is a function on 0..n-1.  *)

PyLen(q) == Cardinality(DOMAIN q)

\* theta_part1_3_lim = 7 * np.pi / 10, in units of pi/10
theta_part1_3_lim == 7

\* what a pivot penalty that forgets the limit in its target would return
theta_pivot_penalty_no_limit(q) ==
    LET theta_part1_3 == q[PyLen(q) - 2] + q[PyLen(q) - 1]
    IN  IF theta_part1_3 > theta_part1_3_lim
        THEN << <<theta_part1_3>>, <<0>> >>
        ELSE << <<0>>, <<0>> >>

\* theta_pivot_penalty(q): (diff_model_pivot, diff_xp_pivot)
theta_pivot_penalty(q) ==
    LET theta_part1_3 == q[PyLen(q) - 2] + q[PyLen(q) - 1]
    IN  IF theta_part1_3 > theta_part1_3_lim
        THEN << <<theta_part1_3>>, <<theta_part1_3_lim>> >>
        ELSE << <<0>>, <<0>> >>

\* objective_ik_list: vect_pos_markers, the positions of biorbd_model.markers(q) in a row
VectPosMarkers(model, q) ==
    LET markers_model == biorbd_markers(model, q)
    IN  [i \in 1..(3 * Len(markers_model)) |-> markers_model[((i - 1) \div 3) + 1][((i - 1) % 3) + 1]]

\* what a table penalty that keeps the z of the second marker would return
penalty_table_markers_with_z(vect_pos_markers, table_markers) ==
    LET table5_xyz == PySlice(vect_pos_markers, table_markers_idx[1] * 3, table_markers_idx[1] * 3 + 3)
        table6_xyz == PySlice(vect_pos_markers, table_markers_idx[2] * 3, table_markers_idx[2] * 3 + 3)
    IN  << table5_xyz \o table6_xyz, table_markers[1] \o table_markers[2] >>

\* penalty_table_markers(vect_pos_markers, table_markers): (table, table_xp);
\* table_markers is the list of the columns of the array [3 x 2]
penalty_table_markers(vect_pos_markers, table_markers) ==
    LET table5_xyz == PySlice(vect_pos_markers, table_markers_idx[1] * 3, table_markers_idx[1] * 3 + 3)
        table6_xy == PySlice(PySlice(vect_pos_markers, table_markers_idx[2] * 3, table_markers_idx[2] * 3 + 3), 0, 2)
        table_xp == table_markers[1] \o PySlice(table_markers[2], 0, 2)
    IN  << table5_xyz \o table6_xy, table_xp >>

-----------------------------------------------------------------------------
(* step_2 and solve: the array operations *)

Frames == 0..(args.nb_frames_ik_step - 1)

\* M[:, fr]
Column(M, fr) == [d \in Dofs |-> M[d][fr]]

\* M[idx, fr] for a list idx of dofs
Rows(M, idx, fr) == [k \in 1..Len(idx) |-> M[idx[k]][fr]]

\* M[idx, fr] = x
WriteRows(M, idx, fr, x) ==
    [d \in Dofs |-> IF \E k \in 1..Len(idx) : idx[k] = d
                    THEN [M[d] EXCEPT ![fr] = x[CHOOSE k \in 1..Len(idx) : idx[k] = d]]
                    ELSE M[d]]

\* M[self.q_parameter_index, :] = np.array([x] * n_frames).T
Broadcast(M, x) ==
    [d \in Dofs |-> IF \E k \in 1..Len(q_parameter_index) : q_parameter_index[k] = d
                    THEN [fr \in DOMAIN M[d] |-> x[CHOOSE k \in 1..Len(q_parameter_index) : q_parameter_index[k] = d]]
                    ELSE M[d]]

\* np.sum(row) over the frames 0..n-1
RECURSIVE SumRow(_, _)
SumRow(row, n) == IF n = 0 THEN 0 ELSE row[n - 1] + SumRow(row, n - 1)

\* solve(): the kinematic dofs whose initial guess sums to zero start half-way
\* between their bounds, in every frame
SeedInitialGuess(guess) ==
    LET idx_zeros == {d \in Dofs : SumRow(guess[d], args.nb_frames_ik_step) = 0}
        kinematic_idx_zeros == {d \in idx_zeros : d \in Range(q_kinematic_index)}
    IN  [d \in Dofs |-> IF d \in kinematic_idx_zeros
                        THEN [fr \in Frames |-> (get_range_q[1][d] + get_range_q[2][d]) \div 2]
                        ELSE guess[d]]

\* np.linalg.norm(a - b) ** 2
SquaredNorm(a, b) == SumSeq([i \in 1..Len(a) |-> (a[i] - b[i]) * (a[i] - b[i])])

\* step_2: [i for i, value in enumerate(self.markers_model) if "Table" in value]
index_table_markers == TableMarkersIdx(args.markers_model)

\* what a residual summed over every marker of markers_model would be
EpsilonOfAllMarkers(M, fr) ==
    LET markers_model == biorbd_markers(args.biorbd_model, Column(M, fr))
    IN  SumSeq([j \in 1..Len(args.markers_model) |-> SquaredNorm(markers_model[j], Markers(j - 1, fr))])

\* step_2: espilon_markers of frame fr, the markers before the first table marker
EpsilonMarkers(M, fr) ==
    LET markers_model == biorbd_markers(args.biorbd_model, Column(M, fr))
    IN  SumSeq([j \in 1..index_table_markers[1] |-> SquaredNorm(markers_model[j], Markers(j - 1, fr))])

\* step_2: self.markers[:, index_table_markers, frame], as the list of its columns
TableMarkers(frame) == [k \in 1..Len(index_table_markers) |-> Markers(index_table_markers[k], frame)]

\* step_2: [i for i, value in enumerate(self.markers_model) if "Table" not in value]
index_wu_markers ==
    LET names == SelectSeq(args.markers_model, LAMBDA name : ~ContainsTable(name))
    IN  [k \in 1..Len(names) |-> PyIndex(args.markers_model, names[k])]

\* step_2: self.markers[:, index_wu_markers, frame], as the list of its columns
WuMarkers(frame) == [k \in 1..Len(index_wu_markers) |-> Markers(index_wu_markers[k], frame)]

\* the concatenation of the lists of a list
RECURSIVE Flatten(_)
Flatten(lists) == IF lists = <<>> THEN <<>> ELSE Head(lists) \o Flatten(Tail(lists))

\* penalty_open_loop_markers(model_markers_values, open_loop_markers):
\* (list_model, list_xp), three components for every name of markers_model
\* that is not one of the two table markers
penalty_open_loop_markers(model_markers_values, open_loop_markers) ==
    LET table5 == args.markers_model[table_markers_idx[1] + 1]
        table6 == args.markers_model[table_markers_idx[2] + 1]
        names == SelectSeq(args.markers_model, LAMBDA name : name # table5 /\ name # table6)
        index(k) == PyIndex(args.markers_model, names[k])
    IN  << Flatten([k \in 1..Len(names) |->
                      PySlice(model_markers_values, index(k) * 3, index(k) * 3 + 3)]),
           Flatten([k \in 1..Len(names) |-> open_loop_markers[index(k) + 1]]) >>

\* biorbd_model.globalJCS(q, nbSegment - 1).rot(): the last segment turns with
\* the last dof and tilts with the first
GlobalJCSRot(q) ==
    << <<1 - q[nbQ - 1], 0, q[0]>>,
       <<0, 1 - q[nbQ - 1], 2 * q[0]>>,
       <<3 * q[0], q[nbQ - 1], 1 + q[0]>> >>

\* penalty_rotation_matrix(x_with_p): (rot_matrix_list_model, rot_matrix_list_xp)
penalty_rotation_matrix(x_with_p) ==
    LET rotation_matrix == GlobalJCSRot(x_with_p)
        rot_matrix_list_model == <<rotation_matrix[3][1], rotation_matrix[3][2],
                                   rotation_matrix[1][3], rotation_matrix[2][3],
                                   rotation_matrix[3][3] - 1>>
    IN  << rot_matrix_list_model, Repeat(0, Len(rot_matrix_list_model)) >>

\* penalty_q_open_loop(x, q_init): (q_continuity_diff_model, q_continuity_diff_xp)
penalty_q_open_loop(x, q_init) ==
    << [i \in 1..Len(x) |-> x[i]], [i \in 1..Len(x) |-> q_init[i]] >>

\* objective_ik_list: new_x, the pose made of x on the kinematic dofs and of
\* pp on the parameter dofs, the parameters written last
NewX(x, pp) ==
    [d \in Dofs |->
        IF \E k \in 1..Len(q_parameter_index) : q_parameter_index[k] = d
        THEN pp[CHOOSE k \in 1..Len(q_parameter_index) : q_parameter_index[k] = d]
        ELSE IF \E k \in 1..Len(q_kinematic_index) : q_kinematic_index[k] = d
        THEN x[CHOOSE k \in 1..Len(q_kinematic_index) : q_kinematic_index[k] = d]
        ELSE 0]

\* objective_ik_list: the blocks of diff = diff_model - diff_xp, in the order
\* of the concatenation
ResidualBlocks(x, pp, table_markers, thorax_markers, q_init) ==
    LET new_x == NewX(x, pp)
        vect_pos_markers == VectPosMarkers(args.biorbd_model, new_x)
        minus(pair) == [i \in 1..Len(pair[1]) |-> pair[1][i] - pair[2][i]]
    IN  << minus(penalty_table_markers(vect_pos_markers, table_markers)),
           minus(penalty_open_loop_markers(vect_pos_markers, thorax_markers)),
           minus(penalty_q_open_loop(x, q_init)),
           minus(theta_pivot_penalty(new_x)),
           minus(penalty_rotation_matrix(new_x)) >>

\* objective_ik_list: the weight list of the backend ik_solver
WeightListOf(solver) ==
    IF solver = "leastsquare" THEN weight_list_param ELSE weight_list_ik

\* penalty_open_loop_markers: open_loop_markers[:, self.markers_model.index(name)]
\* reads a column that open_loop_markers does not have
OpenLoopIndexError(open_loop_markers) ==
    LET table5 == args.markers_model[table_markers_idx[1] + 1]
        table6 == args.markers_model[table_markers_idx[2] + 1]
    IN  \E i \in 1..Len(args.markers_model) :
            /\ args.markers_model[i] # table5
            /\ args.markers_model[i] # table6
            /\ PyIndex(args.markers_model, args.markers_model[i]) >= Len(open_loop_markers)

\* objective_ik_list(x, p, table_markers, thorax_markers, q_init): diff times
\* the weight list, element by element; numpy refuses lists of unequal lengths
objective_ik_list(x, pp, table_markers, thorax_markers, q_init) ==
    LET diff == Flatten(ResidualBlocks(x, pp, table_markers, thorax_markers, q_init))
        weight_list == WeightListOf(args.ik_solver)
    IN  IF OpenLoopIndexError(thorax_markers)
        THEN [exc |-> "IndexError: index is out of bounds", value |-> <<>>]
        ELSE IF Len(diff) # Len(weight_list)
        THEN [exc |-> "ValueError: operands could not be broadcast together", value |-> <<>>]
        ELSE [exc |-> "none", value |-> [i \in 1..Len(diff) |-> diff[i] * weight_list[i]]]

\* x with 1 added to its entry k
Nudge(x, k) == [x EXCEPT ![k] = x[k] + 1]

\* the derivatives of the blocks of the residual with respect to the entries
\* of a vector, given the blocks at the vector and at the vector nudged in each
\* entry: one row for each component of a block, one column for each entry
Derivatives(base, nudged) ==
    [b \in 1..Len(base) |->
        [i \in 1..Len(base[b]) |->
            [k \in 1..Len(nudged) |-> nudged[k][b][i] - base[b][i]]]]

\* jacobians.marker_jacobian_table, marker_jacobian_model,
\* jacobian_q_continuity, marker_jacobian_theta, rotation_matrix_jacobian: the
\* derivatives of the blocks with respect to the kinematic dofs, in the order
\* table, model, continuity, pivot, rotation
BlockJacobians(x, pp, table_markers, thorax_markers, q_init) ==
    Derivatives(ResidualBlocks(x, pp, table_markers, thorax_markers, q_init),
                [k \in 1..Len(x) |->
                    ResidualBlocks(Nudge(x, k), pp, table_markers, thorax_markers, q_init)])

\* jacobians.jacobian_table_parameters, markers_jacobian_model_parameters,
\* jacobian_q_continuity_parameters, marker_jacobian_theta_parameters,
\* rotation_matrix_parameter_jacobian: the same with respect to the parameters
BlockParametersJacobians(x, pp, table_markers, thorax_markers, q_init) ==
    Derivatives(ResidualBlocks(x, pp, table_markers, thorax_markers, q_init),
                [k \in 1..Len(pp) |->
                    ResidualBlocks(x, Nudge(pp, k), table_markers, thorax_markers, q_init)])

\* block * weight
Scale(block, weight) == [i \in 1..Len(block) |-> [k \in 1..Len(block[i]) |-> block[i][k] * weight]]

\* ik_jacobian, ik_parameters_jacobian: np.concatenate of table, model,
\* continuity, pivot and rotation, each times its weight; blocks holds them in
\* that order
ik_jacobian(blocks, weights) ==
    Scale(blocks[1], weights[1]) \o Scale(blocks[2], weights[2]) \o Scale(blocks[3], weights[4])
        \o Scale(blocks[4], weights[3]) \o Scale(blocks[5], weights[5])

\* step_2: the weights handed to ik_jacobian, self.weights_param by the
\* "leastsquare" branch and self.weights_ik (through ik_gradient) by "ipopt"
JacobianWeights(solver) == IF solver = "leastsquare" THEN args.weights_param ELSE args.weights_ik

\* objective_ik_list: len(diff), 5 of the table, 3 for each name of
\* markers_model but the two table markers, one for each entry of x, 1 of the
\* pivot and 5 of the rotation matrix
ResidualLength ==
    5 + 3 * (Len(args.markers_model) - Cardinality(Range(table_markers_idx)))
      + Len(q_kinematic_index) + 1 + 5

\* solve(): markers_xp_data_not_all_frames[:, j, k], the markers of the k-th
\* frame of list_frames_param_step
MarkersCalibration(j, k) == Markers(j, list_frames_param_step[k + 1])

\* objective_function_param: markers_calibration[:, index_wu_markers[0]:
\* index_wu_markers[-1] + 1, k], as the list of its columns
ThoraxMarkersCalibration(k) ==
    LET first == index_wu_markers[1]
        last == index_wu_markers[Len(index_wu_markers)]
    IN  [i \in 1..(last + 1 - first) |-> MarkersCalibration(first + i - 1, k)]

\* objective_function_param: markers_calibration[:, index_wu_markers[-1] + 1:, k]
TableMarkersCalibration(k) ==
    LET last == index_wu_markers[Len(index_wu_markers)]
    IN  [i \in 1..(Len(args.markers_model) - last - 1) |-> MarkersCalibration(last + i, k)]

\* objective_function_param: mark_out of a frame, one squared norm for each
\* column j of thorax_markers, taken on the entries j, j + 1, j + 2 of the lists
MarkOut(thorax_list_model, thorax_list_xp, n_columns) ==
    SumSeq([i \in 1..n_columns |->
               SquaredNorm(PySlice(thorax_list_model, i - 1, i + 2),
                           PySlice(thorax_list_xp, i - 1, i + 2))])

\* objective_function_param: the locals before the loop over the sampled
\* frames; Q is zero but for p0 on the parameter dofs, x0 is the argument
ParamLocals(p0, x0_arg) ==
    [Q |-> [d \in Dofs |->
               IF \E k \in 1..Len(q_parameter_index) : q_parameter_index[k] = d
               THEN p0[CHOOSE k \in 1..Len(q_parameter_index) : q_parameter_index[k] = d]
               ELSE 0],
     x0 |-> x0_arg,
     x0_is_Q |-> FALSE,
     table5_xyz_all_frames |-> 0,
     table6_xy_all_frames |-> 0,
     mark_out_all_frames |-> 0,
     rotation_matrix_all_frames |-> 0,
     q_continuity |-> 0,
     pivot |-> 0]

\* objective_function_param: the body of the loop for the k-th sampled frame.
\* Q[self.q_kinematic_index] = x[self.q_kinematic_index, k] writes into the
\* array Q, which x0 names too once a frame has run (x0 = Q)
ParamFrame(loc, k, x) ==
    LET Q == [d \in Dofs |-> IF d \in Range(q_kinematic_index) THEN x[d][k] ELSE loc.Q[d]]
        x0_of_frame == IF loc.x0_is_Q THEN Q ELSE loc.x0
        vect_pos_markers == VectPosMarkers(args.biorbd_model, Q)
        thorax_markers == ThoraxMarkersCalibration(k)
        table == penalty_table_markers(vect_pos_markers, TableMarkersCalibration(k))
        thorax == penalty_open_loop_markers(vect_pos_markers, thorax_markers)
        rot_matrix_list_model == penalty_rotation_matrix(Q)[1]
        continuity == penalty_q_open_loop([i \in 1..nbQ |-> Q[i - 1]], [i \in 1..nbQ |-> x0_of_frame[i - 1]])
        pivot == theta_pivot_penalty(Q)
    IN  [Q |-> Q,
         x0 |-> Q,
         x0_is_Q |-> TRUE,
         table5_xyz_all_frames |->
             loc.table5_xyz_all_frames
               + SquaredNorm(PySlice(table[1], 0, 3), PySlice(table[2], 0, 3)),
         table6_xy_all_frames |->
             loc.table6_xy_all_frames
               + SquaredNorm(PySlice(table[1], 3, Len(table[1])), PySlice(table[2], 3, Len(table[2]))),
         mark_out_all_frames |->
             loc.mark_out_all_frames + MarkOut(thorax[1], thorax[2], Len(thorax_markers)),
         rotation_matrix_all_frames |->
             loc.rotation_matrix_all_frames
               + SumSeq([i \in 1..Len(rot_matrix_list_model) |->
                            rot_matrix_list_model[i] * rot_matrix_list_model[i]]),
         q_continuity |-> SquaredNorm(continuity[1], continuity[2]),
         pivot |-> (pivot[1][1] - pivot[2][1]) * (pivot[1][1] - pivot[2][1])]

\* objective_function_param: the loop over the sampled frames k, ..., n - 1
RECURSIVE ParamLoop(_, _, _, _)
ParamLoop(loc, k, n, x) ==
    IF k = n THEN loc ELSE ParamLoop(ParamFrame(loc, k, x), k + 1, n, x)

\* objective_function_param(p0, x, x0, markers_calibration, weight): the
\* locals at the return and the value returned
objective_function_param(p0, x, x0_arg, weight) ==
    LET loc == ParamLoop(ParamLocals(p0, x0_arg), 0, Len(list_frames_param_step), x)
    IN  [locals |-> loc,
         value |-> weight[1] * (loc.table5_xyz_all_frames + loc.table6_xy_all_frames)
                     + weight[2] * loc.mark_out_all_frames
                     + weight[3] * loc.pivot
                     + weight[4] * loc.q_continuity
                     + weight[5] * loc.rotation_matrix_all_frames]

\* the points a bounded solve may return for the dofs idx: the lower bound of
\* each dof or the middle of its range
SolverPoints(idx) ==
    {x \in [1..Len(idx) -> QRangeMin..QRangeMax] :
        \A k \in 1..Len(idx) :
            x[k] \in {get_range_q[1][idx[k]], (get_range_q[1][idx[k]] + get_range_q[2][idx[k]]) \div 2}}

\* solve(): bounds, the list of the (mini, maxi) of every dof of the model
bounds == [k \in 1..nbQ |-> <<get_range_q[1][k - 1], get_range_q[2][k - 1]>>]

\* solve(): self.bounds_param, the list of the minima of the parameter dofs
\* and the list of their maxima
bounds_param ==
    << [k \in 1..Len(q_parameter_index) |-> bounds[q_parameter_index[k] + 1][1]],
       [k \in 1..Len(q_parameter_index) |-> bounds[q_parameter_index[k] + 1][2]] >>

\* solve(): the bounds= of the parameter solve, bounds[10:16] for
\* "leastsquare" and self.bounds_param for "ipopt"
ParamBounds(solver) ==
    IF solver = "leastsquare" THEN PySlice(bounds, 10, 16) ELSE bounds_param

\* step_2: bounds_without_p, the minima of the kinematic dofs and their maxima
bounds_without_p ==
    << [k \in 1..Len(q_kinematic_index) |-> get_range_q[1][q_kinematic_index[k]]],
       [k \in 1..Len(q_kinematic_index) |-> get_range_q[2][q_kinematic_index[k]]] >>

\* build_constraint: one equality constraint for each of the components
\* [0], ..., [4] of objective_ik_list, in this order
build_constraint == <<0, 1, 2, 3, 4>>

\* step_2: the constraints= of the solve of a frame; only minimize_ipopt gets any
Step2Constraints(solver) == IF solver = "ipopt" THEN build_constraint ELSE <<>>

\* solve(): the constraints= of the parameter solve; the tuple that
\* build_constraint_parameters returns is handed to neither backend
ParamConstraints(solver) == <<>>

\* solve(): q_first_ik_not_all_frames = q_step_2[:, self.list_frames_param_step]
q_first_ik_not_all_frames ==
    [d \in Dofs |-> [k \in 0..(Len(list_frames_param_step) - 1) |->
                        q_step_2[d][list_frames_param_step[k + 1]]]]

\* no solver has been called
NoSolve == [kind |-> "none", x |-> <<>>, bounds |-> <<>>, constraints |-> <<>>]

\* thresholds handed to solve()
Thresholds == {0, 10}

-----------------------------------------------------------------------------
(* solve() *)

\* solve(), up to the loop over the frames of the first step_2; the seeding
\* writes into the array self.q_ik_initial_guess, and the locals are those of
\* a new call
SolveBegin ==
    /\ \E th \in Thresholds : threshold' = th
    /\ solve_calls' = solve_calls + 1
    /\ q_ik_initial_guess' = SeedInitialGuess(q_ik_initial_guess)
    /\ self_q' = IF guess_is_self_q THEN q_ik_initial_guess' ELSE self_q
    /\ guess_is_q_output' = FALSE
    /\ p' = [k \in 1..Len(args.parameter_dofs) |-> 0]
    /\ q_output' = ZeroArray(args.nb_frames_ik_step)
    /\ q_step_2' = <<>>
    /\ q_out_bound' = FALSE
    /\ epsilon' = 0
    /\ epsilon_markers_n' = 0
    /\ epsilon_markers_n_minus_1' = 0
    /\ delta_epsilon_markers' = 0
    /\ iteration' = 0
    /\ nb_passes' = 0
    /\ in_loop' = FALSE
    /\ f' = 0
    /\ x0' = <<>>
    /\ espilon_markers' = 0
    /\ ik_success' = TRUE
    /\ param_success' = TRUE
    /\ pc' = "step_2"
    /\ UNCHANGED <<err, args, nb_frames, table_markers_idx, model_markers_idx,
                   list_frames_param_step, guess_is_self_q, self_parameters, returned>>
    /\ accepted' = <<>>
    /\ seeded_guess' = q_ik_initial_guess'
    /\ last_solve' = NoSolve
    /\ UNCHANGED penalty_vars

\* the first call of solve() on the engine
SolveInit ==
    /\ pc = "constructed"
    /\ SolveBegin

\* a further call of solve() on an engine whose solve() has returned
SolveAgain ==
    /\ pc = "done"
    /\ solve_calls < MaxSolveCalls
    /\ SolveBegin

\* what a step_2 that warm-starts frame 0 of every pass from the seeded guess would take
WarmStartFromSeededGuess(fr) ==
    IF fr = 0 THEN Rows(seeded_guess, q_kinematic_index, 0)
              ELSE Rows(q_output, q_kinematic_index, fr - 1)

\* what a step_2 that warm-starts every frame from the initial guess would take
WarmStartFromInitialGuess(fr) == Rows(q_ik_initial_guess, q_kinematic_index, 0)

\* step_2: x0 of frame fr, the initial guess of the solve and the q_init of
\* the continuity penalty
WarmStart(fr) ==
    IF fr = 0 THEN Rows(q_ik_initial_guess, q_kinematic_index, 0)
              ELSE Rows(q_output, q_kinematic_index, fr - 1)

\* what a step_2 that goes on after a failed solve would test
optimization_failed_ignored(success) == FALSE

\* step_2: if ipopt_i["success"] == False
optimization_failed(success) == success = FALSE

\* step_2: one frame of the loop, the solve and the tracking residual
Step2Frame ==
    /\ pc = "step_2"
    /\ f < args.nb_frames_ik_step
    /\ x0' = WarmStart(f)
    /\ IF ResidualLength # Len(WeightListOf(args.ik_solver))
           \* the first evaluation of objective_ik_list by the solver raises
           THEN /\ pc' = "error"
                /\ err' = "ValueError: operands could not be broadcast together"
                /\ UNCHANGED <<q_output, q_ik_initial_guess, ik_success, f, espilon_markers,
                               accepted, last_solve>>
           ELSE \E x \in SolverPoints(q_kinematic_index) :
                \E success \in IF args.ik_solver = "ipopt" THEN BOOLEAN ELSE {TRUE} :
                   /\ q_output' = WriteRows(q_output, q_kinematic_index, f, x)
                   /\ q_ik_initial_guess' = IF guess_is_q_output THEN q_output' ELSE q_ik_initial_guess
                   /\ ik_success' = success
                   /\ last_solve' = [kind |-> "ik", x |-> <<>>, bounds |-> bounds_without_p,
                                     constraints |-> Step2Constraints(args.ik_solver)]
                   /\ IF ~optimization_failed(success)
                      THEN /\ espilon_markers' = EpsilonMarkers(q_output', f)
                           /\ accepted' = IF f = 0 THEN <<x>> ELSE Append(accepted, x)
                           /\ f' = f + 1
                           /\ UNCHANGED <<pc, err>>
                      ELSE /\ pc' = "error"
                           /\ err' = "RuntimeError: This optimization failed"
                           /\ UNCHANGED <<f, espilon_markers, accepted>>
    /\ UNCHANGED <<args, nb_frames, table_markers_idx, model_markers_idx,
                   list_frames_param_step, guess_is_q_output, guess_is_self_q,
                   solve_calls, threshold, p, q_step_2,
                   q_out_bound, epsilon, epsilon_markers_n, epsilon_markers_n_minus_1,
                   delta_epsilon_markers, iteration, nb_passes, in_loop, param_success,
                   self_q, self_parameters, returned>>
    /\ UNCHANGED seeded_guess
    /\ UNCHANGED penalty_vars

\* what a list that drops the new entry would hold
append_dropped(n) == n

\* jacobians_used.append(...), gain_list.append(...): the length of the lists
append(n) == n + 1

\* solve(): from the return of the first step_2 to the test of the while loop
InitPassReturn ==
    /\ pc = "step_2"
    /\ ~in_loop
    /\ f = args.nb_frames_ik_step
    /\ q_step_2' = q_output
    /\ epsilon' = espilon_markers
    /\ nb_passes' = append(nb_passes)
    /\ q_output' = ZeroArray(args.markers_shape[3])
    /\ p' = Rows(q_output, q_parameter_index, 0)
    /\ iteration' = 0
    /\ epsilon_markers_n' = 10
    /\ epsilon_markers_n_minus_1' = 0
    /\ delta_epsilon_markers' = 10 - 0
    /\ pc' = "while"
    /\ UNCHANGED <<err, args, nb_frames, table_markers_idx, model_markers_idx,
                   list_frames_param_step, q_ik_initial_guess, guess_is_q_output,
                   guess_is_self_q, solve_calls,
                   threshold, q_out_bound, in_loop, f, x0, espilon_markers, ik_success,
                   param_success, self_q, self_parameters, returned>>
    /\ UNCHANGED <<accepted, seeded_guess, last_solve>>
    /\ UNCHANGED penalty_vars

\* what a loop that also runs when the difference equals the threshold would test
loop_continues_when_equal(delta, th) == Abs(delta) >= th

\* solve(): while abs(delta_epsilon_markers) > threshold
loop_continues(delta, th) == Abs(delta) > th

\* solve(): the body of the while loop up to the loop over the frames of step_2:
\* the parameter solve and the broadcast of its solution
ParamStep ==
    /\ pc = "while"
    /\ loop_continues(delta_epsilon_markers, threshold)
    /\ iteration < MaxIter
    /\ epsilon_markers_n_minus_1' = epsilon_markers_n
    /\ IF list_frames_param_step = <<>>
       \* no sampled frame: "ipopt" reads list_frames_param_step[0], and the
       \* objective of "leastsquare" returns pivot, which its empty loop never binds
       THEN /\ pc' = "error"
            /\ err' = IF args.param_solver = "ipopt"
                      THEN "IndexError: list index out of range"
                      ELSE "UnboundLocalError: pivot"
            /\ UNCHANGED <<p, q_output, q_ik_initial_guess, in_loop, f, param_success, self_q,
                           last_solve>>
       ELSE /\ last_solve' = [kind |-> "param", x |-> q_first_ik_not_all_frames,
                              bounds |-> ParamBounds(args.param_solver),
                              constraints |-> ParamConstraints(args.param_solver)]
            \* optimize.minimize may refuse bounds that are not one for each entry of p
            /\ \/ /\ args.param_solver = "leastsquare"
                  /\ Len(ParamBounds(args.param_solver)) # Len(p)
                  /\ pc' = "error"
                  /\ err' = "ValueError: bounds do not match x0"
                  /\ UNCHANGED <<p, q_output, q_ik_initial_guess, in_loop, f, param_success,
                                 self_q>>
               \* param_opt.x is adopted whatever param_opt.success says
               \/ /\ \E x \in SolverPoints(q_parameter_index) :
                     \E success \in IF args.param_solver = "ipopt" THEN BOOLEAN ELSE {TRUE} :
                         /\ param_success' = success
                         /\ p' = x
                         /\ q_output' = Broadcast(q_output, x)
                         /\ q_ik_initial_guess' = Broadcast(q_ik_initial_guess, x)
                         /\ self_q' = IF guess_is_self_q THEN q_ik_initial_guess' ELSE self_q
                  /\ in_loop' = TRUE
                  /\ f' = 0
                  /\ pc' = "step_2"
                  /\ UNCHANGED err
    /\ UNCHANGED <<args, nb_frames, table_markers_idx, model_markers_idx,
                   list_frames_param_step, guess_is_q_output, guess_is_self_q,
                   solve_calls, threshold, q_step_2,
                   q_out_bound, epsilon, epsilon_markers_n, delta_epsilon_markers,
                   iteration, nb_passes, x0, espilon_markers, ik_success,
                   self_parameters, returned>>
    /\ UNCHANGED <<accepted, seeded_guess>>
    /\ UNCHANGED penalty_vars

\* solve(): the rest of the body, from the return of step_2
LoopPassReturn ==
    /\ pc = "step_2"
    /\ in_loop
    /\ f = args.nb_frames_ik_step
    /\ q_out_bound' = TRUE
    /\ epsilon_markers_n' = espilon_markers
    /\ nb_passes' = append(nb_passes)
    /\ delta_epsilon_markers' = espilon_markers - epsilon_markers_n_minus_1
    /\ iteration' = iteration + 1
    /\ q_ik_initial_guess' = q_output
    /\ guess_is_q_output' = TRUE
    /\ guess_is_self_q' = FALSE
    /\ pc' = "while"
    /\ UNCHANGED <<err, args, nb_frames, table_markers_idx, model_markers_idx,
                   list_frames_param_step, solve_calls, threshold, p, q_output, q_step_2, epsilon,
                   epsilon_markers_n_minus_1, in_loop, f, x0, espilon_markers, ik_success,
                   param_success, self_q, self_parameters, returned>>
    /\ UNCHANGED <<accepted, seeded_guess, last_solve>>
    /\ UNCHANGED penalty_vars

\* solve(): after the loop; q_out is only bound by the body of the loop
SolveReturn ==
    /\ pc = "while"
    /\ ~loop_continues(delta_epsilon_markers, threshold)
    /\ self_parameters' = p
    /\ IF q_out_bound
       THEN /\ self_q' = q_output
            /\ returned' = [q_out |-> q_output, p |-> p]
            \* q_out, q_output and self.q_ik_initial_guess are one array
            /\ guess_is_self_q' = guess_is_q_output
            /\ pc' = "done"
            /\ UNCHANGED err
       ELSE /\ pc' = "error"
            /\ err' = "UnboundLocalError: q_out"
            /\ UNCHANGED <<self_q, returned, guess_is_self_q>>
    /\ UNCHANGED <<args, nb_frames, table_markers_idx, model_markers_idx,
                   list_frames_param_step, q_ik_initial_guess, guess_is_q_output,
                   solve_calls, threshold, p, q_output, q_step_2, q_out_bound, epsilon,
                   epsilon_markers_n, epsilon_markers_n_minus_1, delta_epsilon_markers,
                   iteration, nb_passes, in_loop, f, x0, espilon_markers, ik_success,
                   param_success>>
    /\ UNCHANGED <<accepted, seeded_guess, last_solve>>
    /\ UNCHANGED penalty_vars

-----------------------------------------------------------------------------
(* The engine *)

NoCall == [fn |-> "none", q |-> <<>>, frame |-> 0]

Init ==
    /\ pc = "new"
    /\ err = "none"
    /\ args \in ArgSet
    /\ nb_frames = 0
    /\ table_markers_idx = <<>>
    /\ model_markers_idx = <<>>
    /\ list_frames_param_step = <<>>
    /\ q_ik_initial_guess = <<>>
    /\ guess_is_q_output = FALSE
    /\ guess_is_self_q = FALSE
    /\ solve_calls = 0
    /\ threshold = 0
    /\ p = <<>>
    /\ q_output = <<>>
    /\ q_step_2 = <<>>
    /\ q_out_bound = FALSE
    /\ epsilon = 0
    /\ epsilon_markers_n = 0
    /\ epsilon_markers_n_minus_1 = 0
    /\ delta_epsilon_markers = 0
    /\ iteration = 0
    /\ nb_passes = 0
    /\ in_loop = FALSE
    /\ f = 0
    /\ x0 = <<>>
    /\ espilon_markers = 0
    /\ ik_success = TRUE
    /\ param_success = TRUE
    /\ self_q = <<>>
    /\ self_parameters = <<>>
    /\ returned = [q_out |-> <<>>, p |-> <<>>]
    /\ accepted = <<>>
    /\ seeded_guess = <<>>
    /\ last_solve = NoSolve
    /\ call = NoCall
    /\ ret = <<>>

Next ==
    \/ Construct
    \/ SolveInit
    \/ Step2Frame
    \/ InitPassReturn
    \/ ParamStep
    \/ LoopPassReturn
    \/ SolveReturn

Spec == Init /\ [][Next]_vars

-----------------------------------------------------------------------------
(* An engine built with the usual arguments, on which solve() is called again *)

InitResolve ==
    /\ Init
    /\ args = Baseline(CHOOSE model \in BiorbdModels : Len(model.markerNames) = 3)

NextResolve ==
    \/ Next
    \/ SolveAgain

SpecResolve == InitResolve /\ [][NextResolve]_vars

-----------------------------------------------------------------------------
(* The penalty functions called on an engine built with the usual arguments *)

Poses(top) == [Dofs -> 0..top]

PivotCalls == {[fn |-> "theta_pivot_penalty", q |-> q, frame |-> 0] : q \in Poses(MaxAngle)}

TableCalls ==
    {[fn |-> "penalty_table_markers", q |-> q, frame |-> fr] :
        q \in Poses(QRangeMax), fr \in 0..(NbFrames - 1)}

\* the calls step_2 makes for frame 0 of its loop
ObjectiveCalls ==
    {[fn |-> fn, q |-> q, frame |-> 0] :
        fn \in {"objective_ik_list", "ik_jacobian", "ik_parameters_jacobian"},
        q \in Poses(MaxAngle)}

\* the usual arguments, with either backend for the IK and weights_ik equal to
\* weights_param or not
PenaltyArgs ==
    {[Baseline(model) EXCEPT !.ik_solver = solver, !.weights_ik = w, !.closed_loop_markers = c] :
        model \in BiorbdModels, solver \in Solvers,
        w \in {<<1, 2, 3, 4, 5>>, <<6, 7, 8, 9, 10, 11>>},
        c \in {<<"Table:Table5", "Table:Table6">>, <<"Table:Table5">>}}

InitPenalty ==
    /\ pc = "constructed"
    /\ err = "none"
    /\ args \in PenaltyArgs
    /\ nb_frames = args.markers_shape[3]
    /\ table_markers_idx = TableMarkersIdx(args.markers_model)
    /\ model_markers_idx = ModelMarkersIdx(args.tracked_markers)
    /\ list_frames_param_step = PyRange(args.nb_frames_param_step)
    /\ q_ik_initial_guess = args.q_ik_initial_guess
    /\ guess_is_q_output = FALSE
    /\ guess_is_self_q = FALSE
    /\ solve_calls = 0
    /\ threshold = 0
    /\ p = <<>>
    /\ q_output = <<>>
    /\ q_step_2 = <<>>
    /\ q_out_bound = FALSE
    /\ epsilon = 0
    /\ epsilon_markers_n = 0
    /\ epsilon_markers_n_minus_1 = 0
    /\ delta_epsilon_markers = 0
    /\ iteration = 0
    /\ nb_passes = 0
    /\ in_loop = FALSE
    /\ f = 0
    /\ x0 = <<>>
    /\ espilon_markers = 0
    /\ ik_success = TRUE
    /\ param_success = TRUE
    /\ self_q = ZeroArray(args.nb_frames_ik_step)
    /\ self_parameters = <<>>
    /\ returned = [q_out |-> <<>>, p |-> <<>>]
    /\ accepted = <<>>
    /\ seeded_guess = <<>>
    /\ last_solve = NoSolve
    /\ call \in PivotCalls \cup TableCalls \cup ObjectiveCalls
    /\ ret = <<>>

EvalPivot ==
    /\ call.fn = "theta_pivot_penalty"
    /\ ret = <<>>
    /\ ret' = theta_pivot_penalty(call.q)
    /\ UNCHANGED <<engine_vars, call>>

EvalTable ==
    /\ call.fn = "penalty_table_markers"
    /\ ret = <<>>
    /\ ret' = penalty_table_markers(VectPosMarkers(args.biorbd_model, call.q), TableMarkers(call.frame))
    /\ UNCHANGED <<engine_vars, call>>

\* the arguments step_2 hands to objective_ik_list for the pose call.q in
\* the frame call.frame = 0 of its loop
CallX == Rows([d \in Dofs |-> [fr \in {0} |-> call.q[d]]], q_kinematic_index, 0)
CallP == Rows([d \in Dofs |-> [fr \in {0} |-> call.q[d]]], q_parameter_index, 0)
CallQInit == Rows(q_ik_initial_guess, q_kinematic_index, 0)

EvalObjective ==
    /\ call.fn = "objective_ik_list"
    /\ ret = <<>>
    /\ LET result == objective_ik_list(CallX, CallP, TableMarkers(call.frame),
                                       WuMarkers(call.frame), CallQInit)
       IN  ret' = <<result.exc, result.value>>
    /\ UNCHANGED <<engine_vars, call>>

EvalJacobian ==
    /\ call.fn = "ik_jacobian"
    /\ ret = <<>>
    /\ ret' = ik_jacobian(BlockJacobians(CallX, CallP, TableMarkers(call.frame),
                                         WuMarkers(call.frame), CallQInit),
                          JacobianWeights(args.ik_solver))
    /\ UNCHANGED <<engine_vars, call>>

EvalParametersJacobian ==
    /\ call.fn = "ik_parameters_jacobian"
    /\ ret = <<>>
    /\ ret' = ik_jacobian(BlockParametersJacobians(CallX, CallP, TableMarkers(call.frame),
                                                   WuMarkers(call.frame), CallQInit),
                          JacobianWeights(args.ik_solver))
    /\ UNCHANGED <<engine_vars, call>>

NextPenalty ==
    \/ EvalPivot
    \/ EvalTable
    \/ EvalObjective
    \/ EvalJacobian
    \/ EvalParametersJacobian

SpecPenalty == InitPenalty /\ [][NextPenalty]_vars

-----------------------------------------------------------------------------
(* An engine built with the usual arguments but for its initial guess, whose *)
(* entries may be negative                                                   *)

SeedGuesses == [Dofs -> [0..(NbFrames - 1) -> {-1, 0, 1}]]

SeedArgs ==
    {[Baseline(CHOOSE model \in BiorbdModels : Len(model.markerNames) = 3)
         EXCEPT !.q_ik_initial_guess = guess] : guess \in SeedGuesses}

InitSeed ==
    /\ pc = "new"
    /\ err = "none"
    /\ args \in SeedArgs
    /\ nb_frames = 0
    /\ table_markers_idx = <<>>
    /\ model_markers_idx = <<>>
    /\ list_frames_param_step = <<>>
    /\ q_ik_initial_guess = <<>>
    /\ guess_is_q_output = FALSE
    /\ guess_is_self_q = FALSE
    /\ solve_calls = 0
    /\ threshold = 0
    /\ p = <<>>
    /\ q_output = <<>>
    /\ q_step_2 = <<>>
    /\ q_out_bound = FALSE
    /\ epsilon = 0
    /\ epsilon_markers_n = 0
    /\ epsilon_markers_n_minus_1 = 0
    /\ delta_epsilon_markers = 0
    /\ iteration = 0
    /\ nb_passes = 0
    /\ in_loop = FALSE
    /\ f = 0
    /\ x0 = <<>>
    /\ espilon_markers = 0
    /\ ik_success = TRUE
    /\ param_success = TRUE
    /\ self_q = <<>>
    /\ self_parameters = <<>>
    /\ returned = [q_out |-> <<>>, p |-> <<>>]
    /\ accepted = <<>>
    /\ seeded_guess = <<>>
    /\ last_solve = NoSolve
    /\ call = NoCall
    /\ ret = <<>>

SpecSeed == InitSeed /\ [][Next]_vars

-----------------------------------------------------------------------------
(* objective_function_param called on an engine built with the usual        *)
(* arguments, for one sampled frame or more                                  *)

ParamArgs ==
    {[Baseline(model) EXCEPT !.nb_frames_param_step = n] :
        model \in BiorbdModels, n \in 1..NbFrames}

\* the values of a dof in the poses handed to objective_function_param
ParamAngles == {0, 1, 4}

\* p0 is a parameter vector, x a pose matrix whose kinematic rows vary from
\* frame to frame, q the pose x0 of frame 0
ParamCalls ==
    {[fn |-> "objective_function_param", q |-> x0_arg, frame |-> 0, p0 |-> <<p0>>,
      x |-> [d \in Dofs |-> IF d = nbQ - 1 THEN row ELSE [fr \in 0..(NbFrames - 1) |-> 0]]] :
        x0_arg \in [Dofs -> {0, 1}], p0 \in ParamAngles,
        row \in [0..(NbFrames - 1) -> ParamAngles]}

InitParam ==
    /\ pc = "constructed"
    /\ err = "none"
    /\ args \in ParamArgs
    /\ nb_frames = args.markers_shape[3]
    /\ table_markers_idx = TableMarkersIdx(args.markers_model)
    /\ model_markers_idx = ModelMarkersIdx(args.tracked_markers)
    /\ list_frames_param_step = PyRange(args.nb_frames_param_step)
    /\ q_ik_initial_guess = args.q_ik_initial_guess
    /\ guess_is_q_output = FALSE
    /\ guess_is_self_q = FALSE
    /\ solve_calls = 0
    /\ threshold = 0
    /\ p = <<>>
    /\ q_output = <<>>
    /\ q_step_2 = <<>>
    /\ q_out_bound = FALSE
    /\ epsilon = 0
    /\ epsilon_markers_n = 0
    /\ epsilon_markers_n_minus_1 = 0
    /\ delta_epsilon_markers = 0
    /\ iteration = 0
    /\ nb_passes = 0
    /\ in_loop = FALSE
    /\ f = 0
    /\ x0 = <<>>
    /\ espilon_markers = 0
    /\ ik_success = TRUE
    /\ param_success = TRUE
    /\ self_q = ZeroArray(args.nb_frames_ik_step)
    /\ self_parameters = <<>>
    /\ returned = [q_out |-> <<>>, p |-> <<>>]
    /\ accepted = <<>>
    /\ seeded_guess = <<>>
    /\ last_solve = NoSolve
    /\ call \in ParamCalls
    /\ ret = <<>>

\* solve(): the weight vector handed to objective_function_param
ParamWeights(solver) == IF solver = "leastsquare" THEN args.weights_param ELSE args.weights_ik

EvalObjectiveParam ==
    /\ call.fn = "objective_function_param"
    /\ ret = <<>>
    /\ ret' = <<objective_function_param(call.p0, call.x, call.q, ParamWeights(args.param_solver))>>
    /\ UNCHANGED <<engine_vars, call>>

NextParam ==
    \/ EvalObjectiveParam

SpecParam == InitParam /\ [][NextParam]_vars

-----------------------------------------------------------------------------
(* step_2's tracking residual and objective_ik_list on engines whose markers *)
(* are in any order, the markers of the table not always last                *)

OrderedModels ==
    UNION {{[markerNames |-> names] :
               names \in Injective(Range(SubSeq(OpenLoopNames, 1, n)) \cup {"Table:Table5", "Table:Table6"},
                                   n + 2)} :
           n \in 1..Min(MaxOpenLoop, Len(OpenLoopNames))}

OrderArgs == {Baseline(model) : model \in OrderedModels}

\* the tracking residual step_2 computes for the pose q in the frame, and the
\* call of objective_ik_list step_2 makes for that pose
OrderCalls ==
    {[fn |-> fn, q |-> q, frame |-> fr] :
        fn \in {"espilon_markers", "objective_ik_list"},
        q \in Poses(QRangeMax), fr \in 0..(NbFrames - 1)}

InitOrder ==
    /\ pc = "constructed"
    /\ err = "none"
    /\ args \in OrderArgs
    /\ nb_frames = args.markers_shape[3]
    /\ table_markers_idx = TableMarkersIdx(args.markers_model)
    /\ model_markers_idx = ModelMarkersIdx(args.tracked_markers)
    /\ list_frames_param_step = PyRange(args.nb_frames_param_step)
    /\ q_ik_initial_guess = args.q_ik_initial_guess
    /\ guess_is_q_output = FALSE
    /\ guess_is_self_q = FALSE
    /\ solve_calls = 0
    /\ threshold = 0
    /\ p = <<>>
    /\ q_output = <<>>
    /\ q_step_2 = <<>>
    /\ q_out_bound = FALSE
    /\ epsilon = 0
    /\ epsilon_markers_n = 0
    /\ epsilon_markers_n_minus_1 = 0
    /\ delta_epsilon_markers = 0
    /\ iteration = 0
    /\ nb_passes = 0
    /\ in_loop = FALSE
    /\ f = 0
    /\ x0 = <<>>
    /\ espilon_markers = 0
    /\ ik_success = TRUE
    /\ param_success = TRUE
    /\ self_q = ZeroArray(args.nb_frames_ik_step)
    /\ self_parameters = <<>>
    /\ returned = [q_out |-> <<>>, p |-> <<>>]
    /\ accepted = <<>>
    /\ seeded_guess = <<>>
    /\ last_solve = NoSolve
    /\ call \in OrderCalls
    /\ ret = <<>>

\* step_2: espilon_markers of the frame call.frame once q_output[:, frame] is call.q
EvalEpsilon ==
    /\ call.fn = "espilon_markers"
    /\ ret = <<>>
    /\ ret' = <<EpsilonMarkers([d \in Dofs |-> [fr \in 0..(NbFrames - 1) |-> call.q[d]]], call.frame)>>
    /\ UNCHANGED <<engine_vars, call>>

NextOrder ==
    \/ EvalEpsilon
    \/ EvalObjective

SpecOrder == InitOrder /\ [][NextOrder]_vars

-----------------------------------------------------------------------------
(* Properties *)

Constructed == pc \notin {"new", "failed"}

\* eps returned by the IK pass before the last one
PreviousPassEpsilon == IF iteration = 1 THEN epsilon ELSE epsilon_markers_n_minus_1

\* C1: solve() leaves its loop only when the eps returned by the last two IK
\* passes differ by at most the threshold, never on the value of one eps alone.
C1_ExitOnTwoConsecutiveEps ==
    pc = "done" => Abs(epsilon_markers_n - PreviousPassEpsilon) <= threshold

ParameterRowsEqual(M, x) ==
    \A fr \in Frames : \A k \in 1..Len(q_parameter_index) : M[q_parameter_index[k]][fr] = x[k]

\* C2: from the broadcast of a parameter step on, through the IK step that
\* follows it and in what solve() returns, the parameter rows of the pose
\* matrix equal p in every frame.
C2_ParameterRowsEqualP ==
    in_loop => ParameterRowsEqual(q_output, p)

\* every open-loop marker of frame fr is where the model puts it in pose M[:, fr]
OpenLoopMatched(M, fr) ==
    \A j \in 1..Len(args.markers_model) :
        ~ContainsTable(args.markers_model[j]) =>
            biorbd_markers(args.biorbd_model, Column(M, fr))[j] = Markers(j - 1, fr)

\* squared error of the table markers in frame fr
TableError(M, fr) ==
    SumSeq([k \in 1..Len(index_table_markers) |->
        SquaredNorm(biorbd_markers(args.biorbd_model, Column(M, fr))[index_table_markers[k] + 1],
                    Markers(index_table_markers[k], fr))])

PassSolved == pc = "step_2" /\ f = args.nb_frames_ik_step

\* C3: the eps of an IK pass has no contribution of the table markers: when
\* the pass matches every open-loop marker exactly, eps is 0 whatever the
\* error of the table markers.
C3_EpsilonExcludesTableMarkers ==
    (PassSolved /\ \A fr \in Frames : OpenLoopMatched(q_output, fr)) => espilon_markers = 0

C3_Witness ==
    /\ PassSolved
    /\ in_loop
    /\ \A fr \in Frames : OpenLoopMatched(q_output, fr)
    /\ \A fr \in Frames : TableError(q_output, fr) > 0
    /\ espilon_markers = 0

PivotEvaluated == call.fn = "theta_pivot_penalty" /\ ret # <<>>

PivotSum == call.q[PyLen(call.q) - 2] + call.q[PyLen(call.q) - 1]

\* C4: with s = q[-2] + q[-1] and L = 7 pi / 10, the pivot residual (model
\* minus target) is s - L when s > L and 0 when s <= L, s = L included; the
\* result has one component.
C4_PivotResidual ==
    PivotEvaluated =>
        /\ Len(ret[1]) = 1
        /\ Len(ret[2]) = 1
        /\ PivotSum > theta_part1_3_lim => ret[1][1] - ret[2][1] = PivotSum - theta_part1_3_lim
        /\ PivotSum <= theta_part1_3_lim => ret[1][1] - ret[2][1] = 0

C4_Witness ==
    /\ PivotEvaluated
    /\ PivotSum = theta_part1_3_lim + 1
    /\ ret[1][1] - ret[2][1] = 1

TableEvaluated == call.fn = "penalty_table_markers" /\ ret # <<>>

\* C5: penalty_table_markers returns two lists of 5 components, x, y, z of
\* the first table marker then x, y of the second, however many open-loop
\* markers the model has.
C5_TableLayout ==
    TableEvaluated =>
        LET t5 == MarkerPosition("Table:Table5", call.q)
            t6 == MarkerPosition("Table:Table6", call.q)
            x5 == XpPosition("Table:Table5", call.frame)
            x6 == XpPosition("Table:Table6", call.frame)
        IN  /\ Len(ret[1]) = 5
            /\ Len(ret[2]) = 5
            /\ ret[1] = <<t5[1], t5[2], t5[3], t6[1], t6[2]>>
            /\ ret[2] = <<x5[1], x5[2], x5[3], x6[1], x6[2]>>

C5_Witness ==
    /\ TableEvaluated
    /\ Len(args.markers_model) - Len(index_table_markers) = 2
    /\ Len(ret[1]) = 5

FrameSubsetWellFormed ==
    /\ Len(list_frames_param_step) = args.nb_frames_param_step
    /\ StrictlyIncreasing(list_frames_param_step)
    /\ \A i \in 1..Len(list_frames_param_step) :
          list_frames_param_step[i] \in 0..(args.nb_frames_ik_step - 1)
    /\ \A i, j \in 1..Len(list_frames_param_step) :
          i # j => list_frames_param_step[i] # list_frames_param_step[j]

\* C6: the frame subset drawn at construction has frames_needed indices,
\* distinct, strictly increasing, each in [0, frames), and solve() never
\* changes it: every outer iteration uses the same list.
C6_FrameSubset ==
    /\ [](Constructed => FrameSubsetWellFormed)
    /\ [][Constructed => list_frames_param_step' = list_frames_param_step]_vars

C6_Witness ==
    /\ pc = "step_2"
    /\ iteration = 1
    /\ in_loop
    /\ Len(list_frames_param_step) = 2

NoSolveRun == nb_passes = 0 /\ p = <<>> /\ q_output = <<>> /\ q_step_2 = <<>>

\* C7: more calibration frames than frames is fatal: frame_selector fails,
\* and the construction aborts before any IK or parameter solve.
C7_TooManyFramesIsFatal ==
    args.nb_frames_param_step > args.nb_frames_ik_step =>
        /\ \A o \in frame_selector(args.nb_frames_param_step, args.nb_frames_ik_step) : o.exc # "none"
        /\ pc \in {"new", "failed"}
        /\ NoSolveRun

C7_Witness ==
    /\ args.nb_frames_param_step > args.nb_frames_ik_step
    /\ pc = "failed"
    /\ err = "ValueError: Sample larger than population"

\* C8: with randomize_param_step_frames = False the frame subset is the first
\* frames_needed indices [0, 1, ..., frames_needed - 1].
C8_DeterministicSelection ==
    (Constructed /\ ~args.randomize_param_step_frames) =>
        list_frames_param_step = PyRange(args.nb_frames_param_step)

UnknownName(a) ==
    \/ UnknownModelMarker(a)
    \/ \E i \in 1..Len(a.closed_loop_markers) : a.closed_loop_markers[i] \notin Range(a.markers_model)
    \/ \E i \in 1..Len(a.tracked_markers) : a.tracked_markers[i] \notin Range(a.markers_model)

\* C9: no engine is constructed with an unknown marker name, in markers_model
\* (against the model), in closed_loop_markers or in tracked_markers (against
\* markers_model).
C9_UnknownMarkerNameIsFatal ==
    UnknownName(args) => ~Constructed

\* C10: a marker array whose shape is not (3, len(markers_model),
\* nb_frames_ik_step) aborts the construction with the ValueError of the shape
\* check, before the frame subset is drawn; an engine that is constructed has
\* nb_frames = nb_frames_ik_step.
C10_ShapeMismatchError ==
    /\ (pc # "new" /\ ~UnknownModelMarker(args) /\ ~ShapeMatches(args)) =>
          /\ pc = "failed"
          /\ err = "ValueError: markers and markers model must have same shape"
          /\ list_frames_param_step = <<>>
    /\ Constructed => nb_frames = args.nb_frames_ik_step

ShortWeights(a) == Len(a.weights_param) < 5 \/ Len(a.weights_ik) < 5

C12_IkFailureIsFatal ==
    ~ik_success =>
        /\ args.ik_solver = "ipopt"
        /\ pc = "error"
        /\ err = "RuntimeError: This optimization failed"
        /\ f < args.nb_frames_ik_step
        /\ self_q = ZeroArray(args.nb_frames_ik_step)
        /\ self_parameters = <<>>

C12_Witness ==
    /\ ~ik_success
    /\ pc = "error"
    /\ in_loop
    /\ iteration = 1
    /\ f = 1

\* C13: with the "ipopt" parameter backend, a parameter solve that reports
\* success == False ends the run: its solution is neither adopted as p nor
\* broadcast into the pose matrix, and no IK pass follows it.
C13_ParamFailureIsFatal ==
    ~param_success => pc = "error"

\* C14: the pose matrix and the parameter vector solve() returned keep the
\* values they had when it returned, whatever is done with the engine
\* afterwards, a further call of solve() included.  self.q is the array that
\* was returned, self.parameters the vector.
C14_ReturnedArraysFrozen ==
    (solve_calls >= 1 /\ returned.q_out # <<>>) =>
        (self_q = returned.q_out /\ (pc = "done" => self_parameters = returned.p))

\* C15: after k outer iterations jacobians_used and gain_list have k + 1
\* entries, the one of the Init pass and one per outer iteration; this holds
\* whenever the loop is tested and when solve() returns.
C15_OneEntryPerPass ==
    pc \in {"while", "done"} => nb_passes = iteration + 1

C15_Witness ==
    /\ pc = "done"
    /\ iteration = 2
    /\ nb_passes = 3

DofPartition ==
    /\ \A i \in 1..Len(q_parameter_index) : \A j \in 1..Len(q_kinematic_index) :
          q_parameter_index[i] # q_kinematic_index[j]
    /\ \A d \in Dofs :
          Cardinality({i \in 1..Len(q_parameter_index) : q_parameter_index[i] = d})
            + Cardinality({j \in 1..Len(q_kinematic_index) : q_kinematic_index[j] = d}) = 1

\* C16: on an engine that is constructed q_parameter_index and
\* q_kinematic_index are disjoint and hold every dof index of the model
\* exactly once; unknown, overlapping or uncovered dofs abort the construction.
C16_DofPartition ==
    /\ UnknownDof(args) => ~Constructed
    /\ Constructed => DofPartition

ObjectiveEvaluated == call.fn = "objective_ik_list" /\ ret # <<>>

\* the weight vector of the backend of the IK
WeightsInUse == IF args.ik_solver = "leastsquare" THEN args.weights_param ELSE args.weights_ik

Times(block, weight) == [i \in 1..Len(block) |-> block[i] * weight]

Minus(a, b) == [i \in 1..Len(a) |-> a[i] - b[i]]

\* the residual of the pose q in frame fr with q_init as continuity target,
\* block by block, each block times the weight of its own
ExpectedResidual(q, fr, q_init, w) ==
    LET open == SelectSeq(args.markers_model, LAMBDA name : ~ContainsTable(name))
        closed_loop == Minus(MarkerPosition("Table:Table5", q), XpPosition("Table:Table5", fr))
                         \o SubSeq(Minus(MarkerPosition("Table:Table6", q),
                                         XpPosition("Table:Table6", fr)), 1, 2)
        open_loop == Flatten([j \in 1..Len(open) |->
                                 Minus(MarkerPosition(open[j], q), XpPosition(open[j], fr))])
        continuity == [k \in 1..Len(q_kinematic_index) |-> q[q_kinematic_index[k]] - q_init[k]]
        sum == q[nbQ - 2] + q[nbQ - 1]
        pivot == <<IF sum > theta_part1_3_lim THEN sum - theta_part1_3_lim ELSE 0>>
        rotation == <<GlobalJCSRot(q)[3][1], GlobalJCSRot(q)[3][2], GlobalJCSRot(q)[1][3],
                      GlobalJCSRot(q)[2][3], GlobalJCSRot(q)[3][3] - 1>>
    IN  Times(closed_loop, w[1]) \o Times(open_loop, w[2]) \o Times(continuity, w[4])
            \o Times(pivot, w[3]) \o Times(rotation, w[5])

\* C17: what objective_ik_list returns is the closed-loop block (5), the
\* open-loop block (3 per open-loop marker), the continuity block (1 per
\* optimised dof), the pivot block (1) and the rotation block (5), in this
\* order, each element times the weight of its own block: w[0], w[1], w[3],
\* w[2], w[4]; the weight list has the length of the residual.
C17_ResidualLayout ==
    ObjectiveEvaluated =>
        /\ ret[1] = "none"
        /\ Len(WeightListOf(args.ik_solver)) = ResidualLength
        /\ ret[2] = ExpectedResidual(call.q, call.frame, CallQInit, WeightsInUse)

\* objective_ik_list for the call, with x or pp nudged
CallObjective(x, pp) ==
    objective_ik_list(x, pp, TableMarkers(call.frame), WuMarkers(call.frame), CallQInit).value

\* row i of the Jacobian J is the derivative of component i of the residual
RowsMatchResidual(J, base, nudged) ==
    /\ Len(J) = Len(base)
    /\ \A i \in 1..Len(J) : \A k \in 1..Len(nudged) : J[i][k] = nudged[k][i] - base[i]

\* C18: ik_jacobian and ik_parameters_jacobian stack their blocks in the order
\* of the residual and multiply each by the weight that scales that block of
\* the residual for the backend in use: row i of the Jacobian is the
\* derivative of component i of what objective_ik_list returns.
C18_JacobianRowsMatchResidual ==
    /\ (call.fn = "ik_jacobian" /\ ret # <<>>) =>
          RowsMatchResidual(ret, CallObjective(CallX, CallP),
                            [k \in 1..Len(CallX) |-> CallObjective(Nudge(CallX, k), CallP)])
    /\ (call.fn = "ik_parameters_jacobian" /\ ret # <<>>) =>
          RowsMatchResidual(ret, CallObjective(CallX, CallP),
                            [k \in 1..Len(CallP) |-> CallObjective(CallX, Nudge(CallP, k))])

\* C19: a pass of step_2 solves the frames 0, 1, ... in this order, and the
\* x0 of a frame f > 0, which is both the initial guess of its solve and the
\* target of its continuity penalty, is the solution accepted for frame f - 1
\* in the same pass.
C19_WarmStartFromPreviousFrame ==
    /\ (pc = "step_2" /\ f >= 1) =>
          /\ Len(accepted) = f
          /\ \A k \in 1..f : accepted[k] = Rows(q_output, q_kinematic_index, k - 1)
    /\ (pc = "step_2" /\ f >= 2) => x0 = accepted[f - 1]
    /\ (~ik_success /\ f >= 1) => x0 = accepted[f]

C19_Witness ==
    /\ pc = "step_2"
    /\ in_loop
    /\ iteration = 1
    /\ f = 2
    /\ x0 = accepted[1]
    /\ x0 # Rows(seeded_guess, q_kinematic_index, 0)
    /\ accepted[2] # accepted[1]

\* C20 (as stated): in every pass of step_2, frame 0 is warm-started from the
\* seeded initial guess.
C20_Frame0FromSeededGuess ==
    (pc = "step_2" /\ f = 1) => x0 = Rows(seeded_guess, q_kinematic_index, 0)

\* the kinematic rows frame 0 starts from: a row the parameter step has
\* overwritten holds its parameter; any other row holds the seeded guess up
\* to the pass of the first outer iteration, and later what the previous pass
\* accepted for frame 0
Frame0Start ==
    [k \in 1..Len(q_kinematic_index) |->
        IF in_loop /\ \E j \in 1..Len(q_parameter_index) :
                          q_parameter_index[j] = q_kinematic_index[k]
        THEN p[CHOOSE j \in 1..Len(q_parameter_index) :
                   q_parameter_index[j] = q_kinematic_index[k]]
        ELSE IF iteration = 0 THEN seeded_guess[q_kinematic_index[k]][0]
                              ELSE accepted[1][k]]

\* C20 (amended): frame 0 is warm-started from frame 0 of
\* self.q_ik_initial_guess as it is when the pass begins: the seeded initial
\* guess in the Init pass and in the pass of the first outer iteration, the
\* solution the previous pass accepted for frame 0 from the second outer
\* iteration on, and in the passes of the loop the current parameter in every
\* row that is also a parameter row.
C20_Frame0WarmStart ==
    [][(pc = "step_2" /\ f = 0 /\ pc' = "step_2" /\ f' = 1) => x0' = Frame0Start]_vars

C20_Witness ==
    /\ pc = "step_2"
    /\ in_loop
    /\ iteration = 1
    /\ f = 1
    /\ x0 # Rows(seeded_guess, q_kinematic_index, 0)

\* C21: the kinematic rows the parameter step holds fixed for its k-th sampled
\* frame are those the most recent IK pass accepted for that frame, and the
\* frames it is handed are those of list_frames_param_step.
C21_ParamStepUsesLatestEstimate ==
    last_solve.kind = "param" =>
        /\ DOMAIN last_solve.x[0] = 0..(Len(list_frames_param_step) - 1)
        /\ \A k \in 1..Len(list_frames_param_step) :
              Rows(last_solve.x, q_kinematic_index, k - 1) = accepted[list_frames_param_step[k] + 1]

ParamObjectiveEvaluated == call.fn = "objective_function_param" /\ ret # <<>>

\* the pose objective_function_param builds for its k-th sampled frame
\* (k = 0 is the first), and the pose of frame 0 it is handed for k = -1
SampledPose(k) ==
    IF k < 0 THEN call.q
    ELSE [d \in Dofs |-> IF d \in Range(q_kinematic_index) THEN call.x[d][k]
                         ELSE IF d \in Range(q_parameter_index) THEN call.p0[1] ELSE 0]

PoseDistance(a, b) == SumSeq([i \in 1..nbQ |-> (a[i - 1] - b[i - 1]) * (a[i - 1] - b[i - 1])])

PivotCost(q) ==
    LET pair == theta_pivot_penalty(q)
    IN  (pair[1][1] - pair[2][1]) * (pair[1][1] - pair[2][1])

SampledFrames == 0..(Len(list_frames_param_step) - 1)

\* C22: in objective_function_param the continuity term chains through the
\* sampled frames, the first against the pose of frame 0 it is handed and
\* each later one against the pose of the sampled frame before it, and the
\* continuity and the pivot term of every sampled frame are in the value
\* returned.
C22_ContinuityChainsThroughSamples ==
    ParamObjectiveEvaluated =>
        /\ ret[1].locals.q_continuity =
              SumSeq([k \in 1..Len(list_frames_param_step) |->
                         PoseDistance(SampledPose(k - 1), SampledPose(k - 2))])
        /\ ret[1].locals.pivot =
              SumSeq([k \in 1..Len(list_frames_param_step) |-> PivotCost(SampledPose(k - 1))])

\* the squared distances between the model and the experimental position of
\* the open-loop markers in the k-th sampled frame, summed over the markers
OpenLoopError(k) ==
    SumSeq([j \in 1..Len(index_wu_markers) |->
               SquaredNorm(MarkerPosition(args.markers_model[index_wu_markers[j] + 1], SampledPose(k)),
                           XpPosition(args.markers_model[index_wu_markers[j] + 1],
                                      list_frames_param_step[k + 1]))])

\* C26: in objective_function_param the open-loop term of a sampled frame is
\* the sum over the open-loop markers of the squared distance between the
\* model and the experimental position of the marker, each marker once and
\* its three coordinates against its own.
C26_OpenLoopTermPerMarker ==
    ParamObjectiveEvaluated =>
        ret[1].locals.mark_out_all_frames =
            SumSeq([k \in 1..Len(list_frames_param_step) |-> OpenLoopError(k - 1)])

\* C23: with the "ipopt" backend every solve, of a frame of the IK and of the
\* parameter step alike, is handed five equality constraints, on the
\* components 0..4 of the weighted residual, each once.
C23_FiveEqualityConstraints ==
    /\ (last_solve.kind = "ik" /\ args.ik_solver = "ipopt") =>
          last_solve.constraints = <<0, 1, 2, 3, 4>>
    /\ (last_solve.kind = "param" /\ args.param_solver = "ipopt") =>
          last_solve.constraints = <<0, 1, 2, 3, 4>>

\* C25: the eps an IK pass returns is the sum, over every frame of the pass
\* and every open-loop marker, of the squared distance between the model and
\* the experimental position of the marker.
C25_EpsilonSumsEveryFrame ==
    PassSolved =>
        espilon_markers =
            SumSeq([fr \in 1..args.nb_frames_ik_step |-> EpsilonMarkers(q_output, fr - 1)])

SolveStarted == pc \notin {"new", "failed", "constructed"}

AllZero(row) == \A fr \in Frames : row[fr] = 0

\* C24: solve() re-seeds a row of the initial guess, to the middle of the
\* range of its dof in every frame, if and only if the row is a kinematic
\* dof's and is zero in every frame; every other row keeps the caller's values.
C24_SeedIffAllZero ==
    SolveStarted =>
        \A d \in Dofs :
            seeded_guess[d] =
                IF d \in Range(q_kinematic_index) /\ AllZero(args.q_ik_initial_guess[d])
                THEN [fr \in Frames |-> (get_range_q[1][d] + get_range_q[2][d]) \div 2]
                ELSE args.q_ik_initial_guess[d]

\* C27: the parameter vector the first parameter step starts from, read from
\* the parameter rows of frame 0 of the pose of the Init pass, is the zero
\* vector, whatever the initial guess of the caller.
C27_FirstParamStartIsZero ==
    (pc = "while" /\ ~in_loop) =>
        /\ p = Rows(q_step_2, q_parameter_index, 0)
        /\ p = [k \in 1..Len(q_parameter_index) |-> 0]

\* C28: with either backend the bounds handed to the parameter solve are one
\* (min, max) for each dof of parameter_dofs, in the order of parameter_dofs:
\* the range of that dof.
C28_ParamBoundsOfParameterDofs ==
    last_solve.kind = "param" =>
        last_solve.bounds =
            [k \in 1..Len(q_parameter_index) |->
                <<get_range_q[1][q_parameter_index[k]], get_range_q[2][q_parameter_index[k]]>>]

\* C29: solve() returns only after one parameter step and IK pass at least,
\* and with a threshold below 10 the first test of the loop lets the body
\* run.  With a threshold of 10 or more the body never runs: solve() assigns
\* self.parameters, finds q_out unbound and raises, leaving self.q as it was
\* and returning nothing.
C29_LoopRunsOnceOrSolveFails ==
    /\ pc = "done" => (threshold < 10 /\ iteration >= 1 /\ nb_passes >= 2 /\ q_out_bound)
    /\ (pc = "while" /\ ~in_loop /\ threshold < 10) => Abs(delta_epsilon_markers) > threshold
    /\ (SolveStarted /\ threshold >= 10) =>
          /\ ~in_loop
          /\ iteration = 0
          /\ pc # "done"
          /\ pc = "while" => ~(Abs(delta_epsilon_markers) > threshold)
    /\ (pc = "error" /\ err = "UnboundLocalError: q_out") =>
          /\ threshold >= 10
          /\ self_parameters = p
          /\ self_q = ZeroArray(args.nb_frames_ik_step)
          /\ returned = [q_out |-> <<>>, p |-> <<>>]

C29_Witness ==
    /\ pc = "error"
    /\ err = "UnboundLocalError: q_out"
    /\ threshold = 10
    /\ nb_passes = 1
    /\ self_parameters = <<0>>

EpsilonEvaluated == call.fn = "espilon_markers" /\ ret # <<>>

\* the names of markers_model without "Table" in them, in its order
OpenLoopMarkers == SelectSeq(args.markers_model, LAMBDA name : ~ContainsTable(name))

\* model position minus experimental position of the open-loop markers, for
\* the pose q in the frame fr
OpenLoopResidual(q, fr) ==
    Flatten([j \in 1..Len(OpenLoopMarkers) |->
                Minus(MarkerPosition(OpenLoopMarkers[j], q), XpPosition(OpenLoopMarkers[j], fr))])

\* C30: whatever the order of markers_model, the eps of step_2 sums the
\* squared error of every marker without "Table" in its name, and the
\* open-loop block of objective_ik_list compares every open-loop marker of the
\* model with the experimental position of the marker of the same name.
C30_OpenLoopAnyOrder ==
    /\ EpsilonEvaluated =>
          ret[1] = SumSeq([i \in 1..Len(OpenLoopResidual(call.q, call.frame)) |->
                              OpenLoopResidual(call.q, call.frame)[i]
                                * OpenLoopResidual(call.q, call.frame)[i]])
    /\ ObjectiveEvaluated =>
          /\ ret[1] = "none"
          /\ SubSeq(ret[2], 6, 5 + 3 * Len(OpenLoopMarkers))
                = Times(OpenLoopResidual(call.q, call.frame), WeightsInUse[2])

=============================================================================
